---- MODULE Spec2Model ----
(***************************************************************************)
(* A model of openjphjs: HTJ2KEncoder (src/src/HTJ2KEncoder.hpp),          *)
(* HTJ2KDecoder (src/src/HTJ2KDecoder.hpp) and EncodedBuffer               *)
(* (src/src/EncodedBuffer.hpp), driven by a caller as in                   *)
(* src/test/cpp/main.cpp.  The OpenJPH codestream engine is a collaborator *)
(* and is modelled as a lossless store of sample lines.                    *)
(***************************************************************************)
EXTENDS Integers, Sequences, FiniteSets, TLC

\* ------------------------------------------------------------------ bounds
MaxWidth == 2
MaxHeight == 2
MaxComponents == 3
MaxDecompositions == 1
MaxSlack == 1
MaxPrecincts == 2
MaxSizeDim == 6
MaxSizeLevel == 6

\* ------------------------------------------------------- program constants
UCHAR_MAX == 255
SHRT_MIN == -32768
SHRT_MAX == 32767
USHRT_MAX == 65535
DefaultDecompositions == 5
DefaultProgressionOrder == 2
DefaultBlockDimension == 64

\* widths of the C++ integer types
Pow2_8 == 256
Pow2_16 == 65536

\* ------------------------------------------------------------ arithmetic
RECURSIVE Pow2(_)
Pow2(n) == IF n <= 0 THEN 1 ELSE 2 * Pow2(n - 1)

Min(a, b) == IF a < b THEN a ELSE b
Max(a, b) == IF a > b THEN a ELSE b

\* conversion of an int to unsigned char / uint8_t
ToU8(v) == v % Pow2_8

\* the two bytes (little endian) a short / unsigned short store leaves in
\* memory: conversion of an int to a 16-bit type keeps the low 16 bits
ToLE16(v) == << (v % Pow2_16) % Pow2_8, (v % Pow2_16) \div Pow2_8 >>

\* an unsigned 16-bit load from two bytes
LoadU16(lo, hi) == lo + Pow2_8 * hi

\* a signed 16-bit load from two bytes (two's complement)
LoadI16(lo, hi) ==
    IF LoadU16(lo, hi) >= Pow2_16 \div 2
    THEN LoadU16(lo, hi) - Pow2_16
    ELSE LoadU16(lo, hi)

\* std::vector<uint8_t>::resize: keeps the prefix, zero-fills what is new
\* a resize that sizes a vector only while it is empty
Resize_onlyEmpty(buf, n) == IF Len(buf) > 0 THEN buf ELSE [i \in 1..n |-> 0]

Resize(buf, n) == [i \in 1..n |-> IF i <= Len(buf) THEN buf[i] ELSE 0]

\* --------------------------------------------------------------- records
\* FrameInfo.hpp: the default-initialised descriptor
DefaultFrameInfo ==
    [width |-> 0, height |-> 0, bitsPerSample |-> 0, componentCount |-> 0,
     isSigned |-> FALSE, isUsingColorTransform |-> FALSE]

Point(x, y) == [x |-> x, y |-> y]
Size(w, h) == [width |-> w, height |-> h]

\* the bit depths the model draws: one of each class the code distinguishes
\* (below 8, exactly 8, between 9 and 15, exactly 16)
BitDepths == {7, 8, 12, 16}

\* the depths the decoder tells apart: up to 8 bits, and more
DecodeDepths == {8, 12}

\* the frame descriptors of the given depths; the engine takes the color
\* transform only for images of three or more components
FrameInfosOf(depths) ==
    {fi \in [width : 1..MaxWidth, height : 1..MaxHeight, bitsPerSample : depths,
             componentCount : 1..MaxComponents, isSigned : BOOLEAN,
             isUsingColorTransform : BOOLEAN] :
        fi.isUsingColorTransform => fi.componentCount >= 3}

\* the frame descriptors a caller passes in
FrameInfos == FrameInfosOf(BitDepths)

\* the 4x4 one-component 8-bit frame of the documented scenario
ScenarioFrame ==
    [width |-> 4, height |-> 4, bitsPerSample |-> 8, componentCount |-> 1,
     isSigned |-> FALSE, isUsingColorTransform |-> FALSE]

\* ceil(bitsPerSample / 8): the byte width of one packed sample
CeilBytes(bits) == (bits + 8 - 1) \div 8

\* width * height * componentCount * bytesPerPixel of a descriptor
PackedSize(fi) == fi.width * fi.height * fi.componentCount * CeilBytes(fi.bitsPerSample)

\* the raw files a caller holds: byte i is base + step * i (mod 256), so a
\* constant image (step 0) and images whose bytes all differ (step 1)
Pattern(base, step, n) == [i \in 1..n |-> (base + step * (i - 1)) % Pow2_8]

\* the raw files a caller holds for a frame, slack bytes longer than the
\* frame asks for: an image whose bytes all differ and run through the sign
\* bit, and for the scenario's frame the constant image of value 128
RawFiles(fi, slack) ==
    {Pattern(250, 1, PackedSize(fi) + slack)}
    \cup (IF fi = ScenarioFrame THEN {Pattern(128, 0, PackedSize(fi) + slack)} ELSE {})

\* what lies in memory behind a vector that is read past its end
OOBBytes == {0, 170}

VARIABLES
    build,      \* "native" or "wasm": which side of #ifdef __EMSCRIPTEN__ is compiled
    inFrame,    \* the caller's FrameInfo (encodeFile's frameInfo)
    inBytes,    \* the caller's raw pixel file (encodeFile's inPath contents)
    file,       \* the encoded file on disk (encodeFile's outPath, decodeFile's path)
    stage,      \* where main() is: "encodeFile" or "decodeFile"
    enc,        \* the HTJ2KEncoder instance
    dec,        \* the HTJ2KDecoder instance
    lastOp,     \* the last call made: [op, arg, result]
    calls,      \* the engine calls the last call made, in order
    ub,         \* undefined behaviour the last call ran into
    ret,        \* what the last call returned
    given,      \* history: the Point the caller last gave setDownSample, per component
    earlier     \* history: what the first decode() that returned left, and what followed

vars == << build, inFrame, inBytes, file, stage, enc, dec, lastOp, calls, ub, ret, given,
           earlier >>

NoRet == [width |-> 0, height |-> 0]


\* ------------------------------------------------ the codestream engine
\* The encoded bitstream is what the engine writes through
\* EncodedBuffer::write: one block for write_headers and one for flush.
\* The engine keeps every line it is handed and hands it back unchanged.

Call(f, a) == [f |-> f, a |-> a]

\* param_siz / param_cod as filled by the setters
HeaderBlock(siz, cod) == [kind |-> "hdr", siz |-> siz, cod |-> cod]

\* lines[c][r] is the line of component c-1 at row r-1; good counts the
\* pulls the engine can serve before it reports the data as corrupt
DataBlock(lines, good) == [kind |-> "data", lines |-> lines, good |-> good]

EngineWidth(siz) == siz.extent.x - siz.image_offset.x
EngineHeight(siz) == siz.extent.y - siz.image_offset.y

\* write_headers checks the geometry it is given
EngineAcceptsSiz(siz) ==
    /\ siz.num_components >= 1
    /\ siz.extent.x > siz.image_offset.x
    /\ siz.extent.y > siz.image_offset.y

\* the place the engine files the k-th line it is handed, and the line it
\* serves on the k-th pull: component by component when planar, row by row
\* otherwise.  rows is the number of rows of a component.
EngineComp(planar, k, nc, rows) == IF planar THEN k \div rows ELSE k % nc
EngineRow(planar, k, nc, rows) == IF planar THEN k % rows ELSE k \div nc
EngineIndex(planar, comp, row, nc, rows) ==
    IF planar THEN comp * rows + row ELSE row * nc + comp

\* read_headers: the bitstream must start with a header block
EngineReadsHeader(stream) == Len(stream) >= 1 /\ stream[1].kind = "hdr"

\* restrict_input_resolution rejects more levels than the stream has
EngineAcceptsLevel(hdr, level) == level <= hdr.cod.num_decompositions

\* the size the engine reconstructs at a level
EngineLevelDim(d, level) == (d + Pow2(level) - 1) \div Pow2(level)

\* how many pulls succeed on this stream
EngineGood(stream) ==
    IF Len(stream) >= 2 /\ stream[2].kind = "data" THEN stream[2].good ELSE 0

\* the k-th line pulled at a level: the low-pass band is modelled as every
\* 2^level-th sample of every 2^level-th row
EnginePull(stream, planar, level, k) ==
    LET siz == stream[1].siz
        nc == siz.num_components
        lw == EngineLevelDim(EngineWidth(siz), level)
        lh == EngineLevelDim(EngineHeight(siz), level)
        comp == EngineComp(planar, k, nc, lh)
        row == EngineRow(planar, k, nc, lh)
        full == stream[2].lines[comp + 1][row * Pow2(level) + 1]
    IN  [comp_num |-> comp,
         i32 |-> [x \in 1..lw |-> full[(x - 1) * Pow2(level) + 1]]]


\* ------------------------------------------------------- EncodedBuffer
\* an open that keeps what the buffer holds
EncodedBuffer_open_keeping(buffer) == buffer

EncodedBuffer_open(buffer) == << >>
EncodedBuffer_write(buffer, block) == Append(buffer, block)
EncodedBuffer_tell(buffer) == Len(buffer)

\* -------------------------------------------------------- HTJ2KEncoder
\* the instance after construction (member initialisers)
NewEncoder ==
    [decoded |-> << >>,
     encoded |-> << >>,
     frameInfo |-> DefaultFrameInfo,
     decompositions |-> DefaultDecompositions,
     lossless |-> TRUE,
     request_tlm_marker |-> FALSE,
     set_tilepart_divisions_at_components |-> FALSE,
     set_tilepart_divisions_at_resolutions |-> FALSE,
     quantizationStep |-> -1,
     progressionOrder |-> DefaultProgressionOrder,
     downSamples |-> << >>,
     imageOffset |-> Point(0, 0),
     tileSize |-> Size(0, 0),
     tileOffset |-> Point(0, 0),
     blockDimensions |-> Size(DefaultBlockDimension, DefaultBlockDimension),
     precincts |-> << >>]

\* std::vector<T>::resize for Point / Size elements: new elements are
\* value-initialised by the default constructor
ResizeWith(v, n, fresh) == [i \in 1..n |-> IF i <= Len(v) THEN v[i] ELSE fresh]

\* getDecodedBytes / getDecodedBuffer: every component back to (1,1)
ResetDownSamples(n) == [c \in 1..n |-> Point(1, 1)]

\* getDecodedBuffer's decodedSize
getDecodedBuffer_decodedSize(fi) ==
    fi.width * fi.height * fi.componentCount * ((fi.bitsPerSample + 8 - 1) \div 8)

\* encode's bytesPerPixel
encode_bytesPerPixel(bitsPerSample) == bitsPerSample \div 8

\* a progOrders table with its first and third names swapped
progOrders_swapped == << "RPCL", "RLCP", "LRCP", "PCRL", "CPRL" >>

\* encode's progOrders table
progOrders == << "LRCP", "RLCP", "RPCL", "PCRL", "CPRL" >>

\* an 8-bit offset that leaves the row out
encode_offset8_noRow(width, bytesPerPixel, nc, y, c, x) == c + x * nc

\* the byte offset into decoded_ of the sample encode reads for (y, c, x)
\* in the 8-bit branch
encode_offset8(width, bytesPerPixel, nc, y, c, x) ==
    (y * width * bytesPerPixel * nc) + c + x * nc

\* and in the two 16-bit branches (x counts int16_t / uint16_t elements)
encode_offset16(width, bytesPerPixel, nc, y, c, x) ==
    (y * width * bytesPerPixel) + 2 * x

\* one byte of decoded_, or of what lies behind it
encode_byte(decoded, junk, off) ==
    IF off < Len(decoded) THEN decoded[off + 1] ELSE junk

\* the int32 encode stores through dp for (y, c, x)
encode_sample(fi, decoded, junk, nc, y, c, x) ==
    LET bpp == encode_bytesPerPixel(fi.bitsPerSample)
        o8 == encode_offset8(fi.width, bpp, nc, y, c, x)
        o16 == encode_offset16(fi.width, bpp, nc, y, c, x)
    IN  IF fi.bitsPerSample <= 8
        THEN encode_byte(decoded, junk, o8)
        ELSE IF fi.isSigned
             THEN LoadI16(encode_byte(decoded, junk, o16), encode_byte(decoded, junk, o16 + 1))
             ELSE LoadU16(encode_byte(decoded, junk, o16), encode_byte(decoded, junk, o16 + 1))

\* the last byte offset encode reads for (y, c, x)
encode_lastRead(fi, nc, y, c, x) ==
    LET bpp == encode_bytesPerPixel(fi.bitsPerSample)
    IN  IF fi.bitsPerSample <= 8
        THEN encode_offset8(fi.width, bpp, nc, y, c, x)
        ELSE encode_offset16(fi.width, bpp, nc, y, c, x) + 1

\* the line encode fills for (y, c): frameInfo_.width samples
encode_line(fi, decoded, junk, nc, y, c) ==
    [x \in 1..fi.width |-> encode_sample(fi, decoded, junk, nc, y, c, x - 1)]

\* the siz parameters encode sets
encode_siz(e) ==
    LET fi == e.frameInfo
        num_comps == fi.componentCount
        ds == ResizeWith(e.downSamples, num_comps, Point(0, 0))
    IN  [extent |-> Point(fi.width, fi.height),
         num_components |-> num_comps,
         components |-> [c \in 1..num_comps |->
                           [downsampling |-> ds[c],
                            bit_depth |-> fi.bitsPerSample,
                            is_signed |-> fi.isSigned]],
         image_offset |-> e.imageOffset,
         tile_size |-> e.tileSize,
         tile_offset |-> e.tileOffset]

\* the cod (and qcd, tile-part, tlm) parameters encode sets
encode_cod(e) ==
    [num_decompositions |-> e.decompositions,
     block_dims |-> e.blockDimensions,
     precincts |-> e.precincts,
     progression_order |->
        IF e.progressionOrder + 1 \in DOMAIN progOrders
        THEN progOrders[e.progressionOrder + 1] ELSE "",
     color_transform |-> e.frameInfo.isUsingColorTransform,
     reversible |-> e.lossless,
     irrev_quant |-> IF e.lossless THEN << >> ELSE << e.quantizationStep >>,
     tilepart_divisions |-> << e.set_tilepart_divisions_at_resolutions,
                               e.set_tilepart_divisions_at_components >>,
     tlm_marker |-> e.request_tlm_marker,
     num_layers |-> 1]

\* set_planar's argument in encode
encode_planar(fi) == (fi.isUsingColorTransform = FALSE)

\* a setup that sets the line layout after the headers are written
encode_setupCalls_lateSetter(e) ==
    LET siz == encode_siz(e)
        cod == encode_cod(e)
    IN  << Call("set_image_extent", siz.extent),
           Call("set_num_components", siz.num_components) >>
        \o [c \in 1..siz.num_components |-> Call("set_component", siz.components[c])]
        \o << Call("set_image_offset", siz.image_offset),
              Call("set_tile_size", siz.tile_size),
              Call("set_tile_offset", siz.tile_offset),
              Call("set_num_decomposition", cod.num_decompositions),
              Call("set_block_dims", cod.block_dims),
              Call("set_precinct_size", cod.precincts),
              Call("set_progression_order", cod.progression_order),
              Call("set_color_transform", cod.color_transform),
              Call("set_reversible", cod.reversible) >>
        \o [i \in 1..Len(cod.irrev_quant) |-> Call("set_irrev_quant", cod.irrev_quant[i])]
        \o << Call("set_tilepart_divisions", cod.tilepart_divisions),
              Call("request_tlm_marker", cod.tlm_marker),
              Call("write_headers", 0),
              Call("set_planar", encode_planar(e.frameInfo)) >>

\* the engine calls of encode up to write_headers
encode_setupCalls(e) ==
    LET siz == encode_siz(e)
        cod == encode_cod(e)
    IN  << Call("set_image_extent", siz.extent),
           Call("set_num_components", siz.num_components) >>
        \o [c \in 1..siz.num_components |-> Call("set_component", siz.components[c])]
        \o << Call("set_image_offset", siz.image_offset),
              Call("set_tile_size", siz.tile_size),
              Call("set_tile_offset", siz.tile_offset),
              Call("set_num_decomposition", cod.num_decompositions),
              Call("set_block_dims", cod.block_dims),
              Call("set_precinct_size", cod.precincts),
              Call("set_progression_order", cod.progression_order),
              Call("set_color_transform", cod.color_transform),
              Call("set_reversible", cod.reversible) >>
        \o [i \in 1..Len(cod.irrev_quant) |-> Call("set_irrev_quant", cod.irrev_quant[i])]
        \o << Call("set_tilepart_divisions", cod.tilepart_divisions),
              Call("request_tlm_marker", cod.tlm_marker),
              Call("set_planar", encode_planar(e.frameInfo)),
              Call("write_headers", 0) >>

\* the k-th line encode hands to exchange: its loops run y outside, c inside
encode_handed(e, junk, k) ==
    LET nc == e.frameInfo.componentCount
    IN  encode_line(e.frameInfo, e.decoded, junk, nc, k \div nc, k % nc)

\* encode(): the encoder afterwards, the engine calls, the outcome and the
\* undefined behaviour met, given what lies behind decoded_
encode(e, junk) ==
    LET fi == e.frameInfo
        e1 == [e EXCEPT !.encoded = EncodedBuffer_open(e.encoded),
                        !.downSamples = ResizeWith(e.downSamples, fi.componentCount, Point(0, 0))]
        siz == encode_siz(e)
        cod == encode_cod(e)
        planar == encode_planar(fi)
        nc == siz.num_components
        height == EngineHeight(siz)
        ew == EngineWidth(siz)
        n == height * nc
        lines == [c \in 1..nc |-> [r \in 1..height |->
                    SubSeq(encode_handed(e, junk,
                                EngineIndex(planar, c - 1, r - 1, nc, height)), 1, ew)]]
        reads == {encode_lastRead(fi, nc, k \div nc, k % nc, x) :
                     k \in 0..(n - 1), x \in 0..(fi.width - 1)}
        e2 == [e1 EXCEPT !.encoded = EncodedBuffer_write(e1.encoded, HeaderBlock(siz, cod))]
        e3 == [e2 EXCEPT !.encoded = EncodedBuffer_write(e2.encoded, DataBlock(lines, n))]
    IN  IF ~EngineAcceptsSiz(siz)
        THEN [enc |-> e1, calls |-> encode_setupCalls(e),
              result |-> "CodestreamError", ub |-> {}]
        ELSE [enc |-> e3,
              calls |-> encode_setupCalls(e)
                        \o << Call("exchange", << >>) >>
                        \o [k \in 1..n |-> Call("exchange", encode_handed(e, junk, k - 1))]
                        \o << Call("flush", 0), Call("close", 0) >>,
              result |-> "ok",
              ub |-> (IF \E off \in reads : off >= Len(e.decoded) THEN {"oob_read"} ELSE {})
                     \cup (IF fi.width > ew THEN {"oob_write"} ELSE {})]


\* -------------------------------------------------------- HTJ2KDecoder
\* the instance after construction: the constructor initialises nothing,
\* the vectors are empty and FrameInfo, Point and Size have defaults; the
\* scalar members are written by readHeader_ before anything reads them
NewDecoder ==
    [encoded |-> << >>,
     decoded |-> << >>,
     frameInfo |-> DefaultFrameInfo,
     downSamples |-> << >>,
     numDecompositions |-> 0,
     isReversible |-> FALSE,
     progressionOrder |-> 0,
     imageOffset |-> Point(0, 0),
     tileSize |-> Size(0, 0),
     tileOffset |-> Point(0, 0),
     blockDimensions |-> Size(0, 0),
     precincts |-> << >>,
     numLayers |-> 0,
     isUsingColorTransform |-> FALSE]

\* ojph_arch.h's macro, as calculateSizeAtDecompositionLevel uses it
ojph_div_ceil(a, b) == (a + b - 1) \div b

\* a halving loop that rounds down
RECURSIVE calculateSizeAtDecompositionLevel_floor(_, _)
calculateSizeAtDecompositionLevel_floor(result, decompositionLevel) ==
    IF decompositionLevel > 0
    THEN calculateSizeAtDecompositionLevel_floor(
             Size(result.width \div 2, result.height \div 2), decompositionLevel - 1)
    ELSE result

\* calculateSizeAtDecompositionLevel's loop
RECURSIVE calculateSizeAtDecompositionLevel_loop(_, _)
calculateSizeAtDecompositionLevel_loop(result, decompositionLevel) ==
    IF decompositionLevel > 0
    THEN calculateSizeAtDecompositionLevel_loop(
             Size(ojph_div_ceil(result.width, 2),
                  ojph_div_ceil(result.height, 2)),
             decompositionLevel - 1)
    ELSE result

calculateSizeAtDecompositionLevel(frameInfo, decompositionLevel) ==
    calculateSizeAtDecompositionLevel_loop(
        Size(frameInfo.width, frameInfo.height), decompositionLevel)

\* the engine's accessors readHeader_ calls
EngineProgressionIndex(name) ==
    IF \E i \in DOMAIN progOrders : progOrders[i] = name
    THEN (CHOOSE i \in DOMAIN progOrders : progOrders[i] = name) - 1
    ELSE 0
EnginePrecinct(cod, i) ==
    IF Len(cod.precincts) = 0
    THEN Size(Pow2_16 \div 2, Pow2_16 \div 2)
    ELSE cod.precincts[Min(i, Len(cod.precincts) - 1) + 1]

\* readHeader_ after read_headers succeeded
readHeader_(d) ==
    LET siz == d.encoded[1].siz
        cod == d.encoded[1].cod
    IN  [d EXCEPT
          !.frameInfo = [d.frameInfo EXCEPT
               !.width = (siz.extent.x - siz.image_offset.x) % Pow2_16,
               !.height = (siz.extent.y - siz.image_offset.y) % Pow2_16,
               !.componentCount = siz.num_components % Pow2_8,
               !.bitsPerSample = siz.components[1].bit_depth % Pow2_8,
               !.isSigned = siz.components[1].is_signed],
          !.downSamples = [i \in 1..(siz.num_components % Pow2_8) |->
                               siz.components[i].downsampling],
          !.imageOffset = siz.image_offset,
          !.tileSize = siz.tile_size,
          !.tileOffset = siz.tile_offset,
          !.numDecompositions = cod.num_decompositions,
          !.isReversible = cod.reversible,
          !.progressionOrder = EngineProgressionIndex(cod.progression_order),
          !.blockDimensions = cod.block_dims,
          !.precincts = [i \in 1..cod.num_decompositions |-> EnginePrecinct(cod, i - 1)],
          !.numLayers = cod.num_layers,
          !.isUsingColorTransform = cod.color_transform]

readHeader_calls == << Call("enable_resilience", 0), Call("read_headers", 0) >>

\* decode_'s bytesPerPixel
decode_bytesPerPixel(bitsPerSample) == (bitsPerSample + 8 - 1) \div 8

\* a destination size that leaves the components out
decode_destinationSize_oneComponent(size, componentCount, bytesPerPixel) ==
    size.width * size.height * bytesPerPixel

\* decode_'s destinationSize (uint32_t and size_t products; the frames drawn
\* here keep every product far below 2^31, where none of them wraps)
decode_destinationSize(size, componentCount, bytesPerPixel) ==
    size.width * size.height * componentCount * bytesPerPixel

\* a layout choice that is always planar
decode_planar_always(componentCount, isUsingColorTransform) == TRUE

\* set_planar's argument in decode_
decode_planar(componentCount, isUsingColorTransform) ==
    IF componentCount = 1
    THEN TRUE
    ELSE IF isUsingColorTransform THEN FALSE ELSE TRUE

\* a signed 16-bit clamp without its lower limit
decode_clampS16_noMin(val) == Min(val, SHRT_MAX)

\* the clamps of the line loop
decode_clamp8(val) == Max(0, Min(val, UCHAR_MAX))
decode_clampS16(val) == Max(SHRT_MIN, Min(val, SHRT_MAX))
decode_clampU16(val) == Max(0, Min(val, USHRT_MAX))

\* the value decode_ stores for an engine sample
decode_stored(fi, val) ==
    IF fi.bitsPerSample <= 8
    THEN decode_clamp8(val)
    ELSE IF fi.isSigned THEN decode_clampS16(val) ELSE decode_clampU16(val)

\* lineStart of row y
decode_lineStart(y, width, componentCount, bytesPerPixel) ==
    y * width * componentCount * bytesPerPixel

\* the byte offset in decoded_ where the sample (c, x) of a row starts:
\* pOut is &decoded_[lineStart] + c in units of the stored type, indexed by
\* x * componentCount (x alone for one component)
decode_offset(lineStart, componentCount, bytesPerPixel, c, x) ==
    lineStart + bytesPerPixel * (c + x * componentCount)

\* the bytes a store of val leaves, first byte first
decode_bytes(fi, val) ==
    IF fi.bitsPerSample <= 8
    THEN << ToU8(decode_stored(fi, val)) >>
    ELSE ToLE16(decode_stored(fi, val))

\* decoded_ after one store through pOut: the bytes land at the offset,
\* first byte first
decode_store(buf, off, bytes) ==
    IF Len(bytes) = 1
    THEN [buf EXCEPT ![off + 1] = bytes[1]]
    ELSE [buf EXCEPT ![off + 1] = bytes[1], ![off + 2] = bytes[2]]

\* decoded_ after the x loop has run from x on over a pulled line
RECURSIVE decode_xloop(_, _, _, _, _, _, _)
decode_xloop(buf, fi, width, start, c, i32, x) ==
    IF x >= width
    THEN buf
    ELSE decode_xloop(
             decode_store(buf,
                          decode_offset(start, fi.componentCount,
                                        decode_bytesPerPixel(fi.bitsPerSample), c, x),
                          decode_bytes(fi, i32[x + 1])),
             fi, width, start, c, i32, x + 1)

\* decoded_ after the x loop has stored one pulled line for (y, c)
decode_line(buf, fi, width, y, c, i32) ==
    decode_xloop(buf, fi, width,
                 decode_lineStart(y, width, fi.componentCount,
                                  decode_bytesPerPixel(fi.bitsPerSample)),
                 c, i32, 0)

\* decoded_ after the pulls k..n-1 of the line loop (y outside, c inside)
RECURSIVE decode_loop(_, _, _, _, _, _, _, _)
decode_loop(buf, stream, fi, planar, level, width, k, n) ==
    IF k >= n
    THEN buf
    ELSE decode_loop(
             decode_line(buf, fi, width, k \div fi.componentCount, k % fi.componentCount,
                         EnginePull(stream, planar, level, k).i32),
             stream, fi, planar, level, width, k + 1, n)

\* decode_(): the decoder afterwards, the engine calls and the outcome; d
\* is the decoder as readHeader_ left it
decode_(d, decompositionLevel) ==
    LET fi == d.frameInfo
        size == calculateSizeAtDecompositionLevel(fi, decompositionLevel)
        bpp == decode_bytesPerPixel(fi.bitsPerSample)
        destinationSize == decode_destinationSize(size, fi.componentCount, bpp)
        d1 == [d EXCEPT !.decoded = Resize(d.decoded, destinationSize)]
        planar == decode_planar(fi.componentCount, d.isUsingColorTransform)
        n == size.height * fi.componentCount
        good == Min(n, EngineGood(d.encoded))
        setup == << Call("restrict_input_resolution",
                         << decompositionLevel, decompositionLevel >>) >>
        open == setup \o << Call("set_planar", planar), Call("create", 0) >>
        d2 == [d1 EXCEPT !.decoded =
                  decode_loop(d1.decoded, d.encoded, fi, planar,
                              decompositionLevel, size.width, 0, good)]
    IN  IF ~EngineAcceptsLevel(d.encoded[1], decompositionLevel)
        THEN [dec |-> d1, calls |-> setup, result |-> "CodestreamError"]
        ELSE IF good < n
        THEN [dec |-> d2,
              calls |-> open \o [k \in 1..(good + 1) |-> Call("pull", k - 1)],
              result |-> "CodestreamError"]
        ELSE [dec |-> d2,
              calls |-> open \o [k \in 1..n |-> Call("pull", k - 1)],
              result |-> "ok"]

\* a decode that writes the level's size into the frame descriptor
decodeAt_shrinkingFrame(d, decompositionLevel) ==
    IF ~EngineReadsHeader(d.encoded)
    THEN [dec |-> d, calls |-> readHeader_calls, result |-> "CodestreamError"]
    ELSE LET r == decode_(readHeader_(d), decompositionLevel)
             size == calculateSizeAtDecompositionLevel(r.dec.frameInfo, decompositionLevel)
         IN  [dec |-> [r.dec EXCEPT !.frameInfo.width = size.width,
                                    !.frameInfo.height = size.height],
              calls |-> readHeader_calls \o r.calls, result |-> r.result]

\* decode() and decodeSubResolution(): readHeader_, then decode_
decodeAt(d, decompositionLevel) ==
    IF ~EngineReadsHeader(d.encoded)
    THEN [dec |-> d, calls |-> readHeader_calls, result |-> "CodestreamError"]
    ELSE LET r == decode_(readHeader_(d), decompositionLevel)
         IN  [dec |-> r.dec, calls |-> readHeader_calls \o r.calls, result |-> r.result]


\* ------------------------------------------------------------- actions
\* main() runs encodeFile and then decodeFile: the encoder is used up to the
\* write of the encoded file, the decoder from then on.
Op(op, arg, result) == [op |-> op, arg |-> arg, result |-> result]

\* no setDownSample call has been made
NeverGiven == [c \in {} |-> Point(1, 1)]

\* no decode() has returned
NeverDecoded == [decoded |-> FALSE, first |-> << >>, between |-> FALSE]

\* what a call leaves in the bookkeeping variables
Did(op, arg, result, engineCalls, undefined, returned) ==
    /\ lastOp' = Op(op, arg, result)
    /\ calls' = engineCalls
    /\ ub' = undefined
    /\ ret' = returned
    /\ given' = given
    /\ earlier' = earlier

\* HTJ2KEncoder::getDecodedBytes(frameInfo)   (native build)
GetDecodedBytes ==
    /\ stage = "encodeFile"
    /\ build = "native"
    /\ enc' = [enc EXCEPT !.frameInfo = inFrame,
                          !.downSamples = ResetDownSamples(inFrame.componentCount)]
    /\ Did("getDecodedBytes", 0, "ok", << >>, {}, NoRet)
    /\ UNCHANGED << build, inFrame, inBytes, file, stage, dec >>

\* HTJ2KEncoder::getDecodedBuffer(frameInfo)   (WASM build)
GetDecodedBuffer ==
    /\ stage = "encodeFile"
    /\ build = "wasm"
    /\ enc' = [enc EXCEPT !.frameInfo = inFrame,
                          !.downSamples = ResetDownSamples(inFrame.componentCount),
                          !.decoded = Resize(enc.decoded, getDecodedBuffer_decodedSize(inFrame))]
    /\ Did("getDecodedBuffer", 0, "ok", << >>, {}, NoRet)
    /\ UNCHANGED << build, inFrame, inBytes, file, stage, dec >>

\* the caller fills the source buffer it was handed: through the vector
\* reference in the native build (encodeFile's readFile inserts the file at
\* the front of the encoder's still empty vector), through the typed array
\* view in the WASM build, which cannot be written past its length
WriteSource ==
    /\ stage = "encodeFile"
    /\ enc.frameInfo = inFrame
    /\ build = "native" => Len(enc.decoded) = 0
    /\ IF build = "native"
       THEN /\ enc' = [enc EXCEPT !.decoded = inBytes \o enc.decoded]
            /\ Did("writeSource", 0, "ok", << >>, {}, NoRet)
       ELSE IF Len(inBytes) <= Len(enc.decoded)
       THEN /\ enc' = [enc EXCEPT !.decoded =
                          [i \in 1..Len(enc.decoded) |->
                              IF i <= Len(inBytes) THEN inBytes[i] ELSE enc.decoded[i]]]
            /\ Did("writeSource", 0, "ok", << >>, {}, NoRet)
       ELSE /\ enc' = enc
            /\ Did("writeSource", 0, "RangeError", << >>, {}, NoRet)
    /\ UNCHANGED << build, inFrame, inBytes, file, stage, dec >>

\* a setDecompositions that keeps the precinct list
setDecompositions_keepPrecincts(e, decompositions) ==
    [e EXCEPT !.decompositions = decompositions]

\* HTJ2KEncoder::setDecompositions
setDecompositions(e, decompositions) ==
    [e EXCEPT !.decompositions = decompositions,
              !.precincts = ResizeWith(e.precincts, 0, Size(0, 0))]

SetDecompositions(decompositions) ==
    /\ stage = "encodeFile"
    /\ enc' = setDecompositions(enc, decompositions)
    /\ Did("setDecompositions", decompositions, "ok", << >>, {}, NoRet)
    /\ UNCHANGED << build, inFrame, inBytes, file, stage, dec >>

\* HTJ2KEncoder::setNumPrecincts
setNumPrecincts(e, numLevels) ==
    [e EXCEPT !.precincts = ResizeWith(e.precincts, numLevels, Size(0, 0))]

SetNumPrecincts(numLevels) ==
    /\ stage = "encodeFile"
    /\ enc' = setNumPrecincts(enc, numLevels)
    /\ Did("setNumPrecincts", numLevels, "ok", << >>, {}, NoRet)
    /\ UNCHANGED << build, inFrame, inBytes, file, stage, dec >>

\* HTJ2KEncoder::setPrecinct: operator[] writes outside the vector's
\* elements when level is not below its size, which leaves them as they are
SetPrecinct(level, precinct) ==
    /\ stage = "encodeFile"
    /\ enc' = IF level < Len(enc.precincts)
              THEN [enc EXCEPT !.precincts[level + 1] = precinct]
              ELSE enc
    /\ Did("setPrecinct", level, "ok", << >>,
           IF level < Len(enc.precincts) THEN {} ELSE {"oob_write"}, NoRet)
    /\ UNCHANGED << build, inFrame, inBytes, file, stage, dec >>

\* HTJ2KEncoder::setDownSample(component, downSample): the vector grows to
\* hold the component, its new elements being Point()
setDownSample(e, component, downSample) ==
    LET grown == IF Len(e.downSamples) <= component
                 THEN ResizeWith(e.downSamples, component + 1, Point(0, 0))
                 ELSE e.downSamples
    IN  [e EXCEPT !.downSamples = [grown EXCEPT ![component + 1] = downSample]]

SetDownSample(component, downSample) ==
    /\ stage = "encodeFile"
    /\ enc' = setDownSample(enc, component, downSample)
    /\ lastOp' = Op("setDownSample", component, "ok")
    /\ calls' = << >>
    /\ ub' = {}
    /\ ret' = NoRet
    /\ given' = [c \in DOMAIN given \cup {component} |->
                    IF c = component THEN downSample ELSE given[c]]
    /\ earlier' = earlier
    /\ UNCHANGED << build, inFrame, inBytes, file, stage, dec >>

\* HTJ2KEncoder::setImageOffset(imageOffset)
setImageOffset(e, imageOffset) == [e EXCEPT !.imageOffset = imageOffset]

SetImageOffset(imageOffset) ==
    /\ stage = "encodeFile"
    /\ enc' = setImageOffset(enc, imageOffset)
    /\ Did("setImageOffset", imageOffset, "ok", << >>, {}, NoRet)
    /\ UNCHANGED << build, inFrame, inBytes, file, stage, dec >>

\* HTJ2KEncoder::encode
Encode ==
    /\ stage = "encodeFile"
    /\ \E junk \in OOBBytes :
        LET r == encode(enc, junk)
        IN  /\ enc' = r.enc
            /\ Did("encode", 0, r.result, r.calls, r.ub, NoRet)
    /\ UNCHANGED << build, inFrame, inBytes, file, stage, dec >>

\* HTJ2KEncoder::getEncodedBytes (native) / getEncodedBuffer (WASM): the
\* caller gets the buffer's tell() bytes and writes them out, and keeps the
\* encoder
GetEncodedBytes ==
    /\ stage = "encodeFile"
    /\ file' = enc.encoded
    /\ Did("getEncodedBytes", 0, "ok", << >>, {}, enc.encoded)
    /\ UNCHANGED << build, inFrame, inBytes, stage, enc, dec >>

\* encodeFile's writeFile(outPath, encoder.getEncodedBytes()), reached when
\* encode() returned; encodeFile returns and decodeFile begins
WriteFile ==
    /\ stage = "encodeFile"
    /\ lastOp.op = "encode"
    /\ lastOp.result = "ok"
    /\ file' = enc.encoded
    /\ stage' = "decodeFile"
    /\ Did("writeFile", 0, "ok", << >>, {}, NoRet)
    /\ UNCHANGED << build, inFrame, inBytes, enc, dec >>

\* decodeFile's readFile(path, decoder.getEncodedBytes())
LoadFile ==
    /\ stage = "decodeFile"
    /\ dec' = [dec EXCEPT !.encoded = file]
    /\ Did("loadFile", 0, "ok", << >>, {}, NoRet)
    /\ UNCHANGED << build, inFrame, inBytes, file, stage, enc >>

\* a readHeader that goes on to decode the pixels
ReadHeader_decoding ==
    /\ stage = "decodeFile"
    /\ LET r == decodeAt(dec, 0)
       IN  /\ dec' = r.dec
           /\ Did("readHeader", 0, r.result, r.calls, {}, NoRet)
    /\ UNCHANGED << build, inFrame, inBytes, file, stage, enc >>

\* HTJ2KDecoder::readHeader
ReadHeader ==
    /\ stage = "decodeFile"
    /\ IF EngineReadsHeader(dec.encoded)
       THEN /\ dec' = readHeader_(dec)
            /\ Did("readHeader", 0, "ok", readHeader_calls, {}, NoRet)
       ELSE /\ dec' = dec
            /\ Did("readHeader", 0, "CodestreamError", readHeader_calls, {}, NoRet)
    /\ UNCHANGED << build, inFrame, inBytes, file, stage, enc >>

\* HTJ2KDecoder::decode
Decode ==
    /\ stage = "decodeFile"
    /\ LET r == decodeAt(dec, 0)
       IN  /\ dec' = r.dec
           /\ lastOp' = Op("decode", 0, r.result)
           /\ calls' = r.calls
           /\ earlier' = IF r.result = "ok" /\ ~earlier.decoded
                         THEN [decoded |-> TRUE, first |-> r.dec.decoded, between |-> FALSE]
                         ELSE earlier
    /\ ub' = {}
    /\ ret' = NoRet
    /\ given' = given
    /\ UNCHANGED << build, inFrame, inBytes, file, stage, enc >>

\* HTJ2KDecoder::decodeSubResolution
DecodeSubResolution(decompositionLevel) ==
    /\ stage = "decodeFile"
    /\ LET r == decodeAt(dec, decompositionLevel)
       IN  /\ dec' = r.dec
           /\ lastOp' = Op("decodeSubResolution", decompositionLevel, r.result)
           /\ calls' = r.calls
           /\ earlier' = IF r.result = "ok" /\ decompositionLevel # 0 /\ earlier.decoded
                         THEN [earlier EXCEPT !.between = TRUE]
                         ELSE earlier
    /\ ub' = {}
    /\ ret' = NoRet
    /\ given' = given
    /\ UNCHANGED << build, inFrame, inBytes, file, stage, enc >>

\* HTJ2KDecoder::calculateSizeAtDecompositionLevel
CalculateSize(decompositionLevel) ==
    /\ stage = "decodeFile"
    /\ Did("calculateSizeAtDecompositionLevel", decompositionLevel, "ok", << >>, {},
           calculateSizeAtDecompositionLevel(dec.frameInfo, decompositionLevel))
    /\ UNCHANGED << build, inFrame, inBytes, file, stage, enc, dec >>

\* ------------------------------------------- the encode / decode round trip
Builds == {"native", "wasm"}

\* the FrameInfo a JavaScript caller passes has no isUsingColorTransform
\* field: the binding leaves it out, and the member keeps its default
JsFrameInfo(b, fi) == b = "wasm" => ~fi.isUsingColorTransform

Start(b, st, fi, bytes, f) ==
    /\ build = b
    /\ stage = st
    /\ inFrame = fi
    /\ inBytes = bytes
    /\ file = f
    /\ enc = NewEncoder
    /\ dec = NewDecoder
    /\ lastOp = Op("construct", 0, "ok")
    /\ calls = << >>
    /\ ub = {}
    /\ ret = NoRet
    /\ given = NeverGiven
    /\ earlier = NeverDecoded

\* main() encodes a raw file of exactly the frame's size, writes the
\* bitstream out and decodes it
Init ==
    \E b \in Builds, fi \in FrameInfos \cup {ScenarioFrame} :
        /\ JsFrameInfo(b, fi)
        /\ \E bytes \in RawFiles(fi, 0) : Start(b, "encodeFile", fi, bytes, << >>)

Next ==
    \/ GetDecodedBytes
    \/ GetDecodedBuffer
    \/ WriteSource
    \/ SetDecompositions(0)
    \/ Encode
    \/ WriteFile
    \/ LoadFile
    \/ ReadHeader
    \/ Decode

Spec == Init /\ [][Next]_vars

\* ------------------------------------------------ source buffers of any size
\* the caller's raw file misses the frame's size by up to MaxSlack bytes
InitSource ==
    \E b \in Builds, fi \in FrameInfos, d \in (0 - MaxSlack)..MaxSlack :
        /\ JsFrameInfo(b, fi)
        /\ PackedSize(fi) + d >= 0
        /\ \E bytes \in RawFiles(fi, d) : Start(b, "encodeFile", fi, bytes, << >>)

NextSource ==
    \/ GetDecodedBytes
    \/ GetDecodedBuffer
    \/ WriteSource
    \/ Encode

SpecSource == InitSource /\ [][NextSource]_vars

\* ------------------------------------------------------ encoder configuration
\* the frame the configuration runs use
ConfigFrame ==
    [width |-> 1, height |-> 1, bitsPerSample |-> 8, componentCount |-> 1,
     isSigned |-> FALSE, isUsingColorTransform |-> FALSE]

PrecinctSizes == {Size(2 * DefaultBlockDimension, 2 * DefaultBlockDimension)}

InitConfig ==
    \E b \in Builds :
        Start(b, "encodeFile", ConfigFrame, Pattern(128, 0, PackedSize(ConfigFrame)), << >>)

NextConfig ==
    \/ GetDecodedBytes
    \/ GetDecodedBuffer
    \/ WriteSource
    \/ \E n \in 0..MaxDecompositions : SetDecompositions(n)
    \/ \E n \in 0..MaxPrecincts : SetNumPrecincts(n)
    \/ \E l \in 0..MaxPrecincts, p \in PrecinctSizes : SetPrecinct(l, p)
    \/ Encode

SpecConfig == InitConfig /\ [][NextConfig]_vars

\* ------------------------------------------------------- decoding any file
\* the values a file's samples run through: below and above every clamp,
\* and inside all of them
SampleValues == << SHRT_MIN - 2, USHRT_MAX + 2, UCHAR_MAX + 1, -1, SHRT_MAX + 1, 100 >>

\* the header another encoder wrote for a frame with nd decompositions
FileHeader(fi, nd) ==
    LET e == [NewEncoder EXCEPT !.frameInfo = fi,
                                !.downSamples = ResetDownSamples(fi.componentCount),
                                !.decompositions = nd]
    IN  HeaderBlock(encode_siz(e), encode_cod(e))

\* its lines: the sample values in turn, in the order row, column, component
FileLines(fi) ==
    [c \in 1..fi.componentCount |-> [r \in 1..fi.height |-> [x \in 1..fi.width |->
        SampleValues[((((r - 1) * fi.width + (x - 1)) * fi.componentCount + (c - 1))
                         % Len(SampleValues)) + 1]]]]

\* the encoded files decodeFile may meet for a frame: whole ones, ones cut
\* after the first line, and one that is no codestream at all
EncodedFiles(fi) ==
    {<< FileHeader(fi, nd), DataBlock(FileLines(fi), good) >> :
        nd \in 0..MaxDecompositions,
        good \in {1, fi.height * fi.componentCount}}
    \cup {<< >>}

Levels == 0..(MaxDecompositions + 1)

InitDecode ==
    \E fi \in FrameInfosOf(DecodeDepths) :
        \E f \in EncodedFiles(fi) : Start("native", "decodeFile", fi, << >>, f)

NextDecode ==
    \/ LoadFile
    \/ ReadHeader
    \/ Decode
    \/ \E l \in Levels : DecodeSubResolution(l)

SpecDecode == InitDecode /\ [][NextDecode]_vars

\* ------------------------------------------------- resolution calculator
\* the image sizes and levels calculateSizeAtDecompositionLevel is asked for
\* a caller choosing the down-sampling of a two-component frame before or
\* after it asks for the source buffer
DownFrame ==
    [width |-> 1, height |-> 1, bitsPerSample |-> 8, componentCount |-> 2,
     isSigned |-> FALSE, isUsingColorTransform |-> FALSE]

DownSamples == {Point(2, 2), Point(2, 1)}

InitDown ==
    \E b \in Builds :
        Start(b, "encodeFile", DownFrame, Pattern(128, 0, PackedSize(DownFrame)), << >>)

NextDown ==
    \/ GetDecodedBytes
    \/ GetDecodedBuffer
    \/ WriteSource
    \/ \E c \in 0..(DownFrame.componentCount - 1), p \in DownSamples : SetDownSample(c, p)
    \/ Encode

SpecDown == InitDown /\ [][NextDown]_vars

\* a caller encoding a one-component 8-bit frame at an image offset and
\* reading the header of what was written
OffsetFrames ==
    {fi \in FrameInfosOf({8}) : fi.componentCount = 1 /\ ~fi.isSigned}

Offsets == {Point(0, 0), Point(1, 0), Point(0, 1)}

InitOffset ==
    \E b \in Builds, fi \in OffsetFrames :
        \E bytes \in RawFiles(fi, 0) : Start(b, "encodeFile", fi, bytes, << >>)

NextOffset ==
    \/ GetDecodedBytes
    \/ GetDecodedBuffer
    \/ WriteSource
    \/ \E p \in Offsets : SetImageOffset(p)
    \/ Encode
    \/ WriteFile
    \/ LoadFile
    \/ ReadHeader

SpecOffset == InitOffset /\ [][NextOffset]_vars

\* a caller that keeps one encoder, changes its source and settings, encodes
\* again and takes the encoded bytes each time
InitReuse ==
    \E b \in Builds, fi \in OffsetFrames :
        \E bytes \in RawFiles(fi, 0) : Start(b, "encodeFile", fi, bytes, << >>)

NextReuse ==
    \/ GetDecodedBytes
    \/ GetDecodedBuffer
    \/ WriteSource
    \/ \E n \in 0..MaxDecompositions : SetDecompositions(n)
    \/ Encode
    \/ GetEncodedBytes

SpecReuse == InitReuse /\ [][NextReuse]_vars

SizeDims == (1..MaxSizeDim) \cup {512, Pow2_16 - 1}

SizeFrame(w, h) == [ConfigFrame EXCEPT !.width = w, !.height = h]

InitSize ==
    \E w \in SizeDims, h \in SizeDims, nd \in {MaxDecompositions, DefaultDecompositions} :
        Start("native", "decodeFile", SizeFrame(w, h), << >>,
              << FileHeader(SizeFrame(w, h), nd) >>)

NextSize ==
    \/ LoadFile
    \/ ReadHeader
    \/ \E l \in 0..MaxSizeLevel : CalculateSize(l)

SpecSize == InitSize /\ [][NextSize]_vars

\* ================================================================ claims
\* what the claims read off the state
DecodeOps == {"decode", "decodeSubResolution"}

\* the arguments of the engine calls named f, in call order
PassedTo(log, f) == SelectSeq(log, LAMBDA c : c.f = f)

\* clamp(v, lo, hi) as the specification words it
ClampTo(v, lo, hi) == IF v < lo THEN lo ELSE IF v > hi THEN hi ELSE v

\* ceil(d / 2): the least n with 2n >= d
CeilHalf(d) == CHOOSE n \in (d \div 2)..(d \div 2 + 1) : 2 * n >= d /\ 2 * (n - 1) < d

RECURSIVE CeilHalfTimes(_, _)
CeilHalfTimes(d, times) == IF times <= 0 THEN d ELSE CeilHalfTimes(CeilHalf(d), times - 1)

\* main() has encoded, written, loaded and decoded at level 0, lossless,
\* from a source buffer of exactly the frame's packed size
RoundTripDone ==
    /\ stage = "decodeFile"
    /\ lastOp.op = "decode"
    /\ lastOp.result = "ok"
    /\ dec.encoded = enc.encoded
    /\ enc.lossless
    /\ Len(enc.decoded) = PackedSize(enc.frameInfo)

\* C1: encoding a source buffer of width*height*componentCount*bytesPerPixel
\* bytes lossless and decoding the result at level 0 gives back the source
\* buffer byte for byte, for every supported frame.
C1_RoundTrip == RoundTripDone => dec.decoded = enc.decoded

\* C2: calculateSizeAtDecompositionLevel(L) is ceil-halving applied L times
\* to width and to height; L = 0 gives (width, height), and a 512x512 image
\* gives (256,256) at L = 1 and (16,16) at L = 5.
C2_SizeAtLevel ==
    lastOp.op = "calculateSizeAtDecompositionLevel" =>
        LET w == dec.frameInfo.width
            h == dec.frameInfo.height
            L == lastOp.arg
        IN  /\ ret = Size(CeilHalfTimes(w, L), CeilHalfTimes(h, L))
            /\ (L = 0 => ret = Size(w, h))
            /\ (w = 512 /\ h = 512 /\ L = 1 => ret = Size(256, 256))
            /\ (w = 512 /\ h = 512 /\ L = 5 => ret = Size(16, 16))

C2_Witness ==
    /\ lastOp.op = "calculateSizeAtDecompositionLevel"
    /\ lastOp.arg = 5
    /\ dec.frameInfo.width = 512
    /\ dec.frameInfo.height = 512
    /\ ret = Size(16, 16)

\* C3: a level above numDecompositions is rejected as InvalidLevel:
\* decodeSubResolution(L) fails before any engine call that restricts the
\* resolution, creates the codestream or pulls a line, and without resizing
\* the decoded buffer, and
\* calculateSizeAtDecompositionLevel(L) fails instead of returning a size.
C3_InvalidLevelRejected ==
    [][/\ (/\ lastOp'.op = "decodeSubResolution"
            /\ EngineReadsHeader(dec'.encoded)
            /\ lastOp'.arg > dec'.numDecompositions)
           => /\ lastOp'.result = "InvalidLevel"
              /\ dec'.decoded = dec.decoded
              /\ \A i \in DOMAIN calls' :
                    calls'[i].f \notin {"restrict_input_resolution", "create", "pull"}
       /\ (/\ lastOp'.op = "calculateSizeAtDecompositionLevel"
            /\ dec'.frameInfo # DefaultFrameInfo
            /\ lastOp'.arg > dec'.numDecompositions)
           => lastOp'.result = "InvalidLevel"]_vars

\* C4: after a successful decode() or decodeSubResolution(L) the decoded
\* buffer is levelWidth * levelHeight * componentCount * ceil(bitsPerSample/8)
\* bytes long, whatever level the decode before it used.
C4_DecodedLength ==
    (lastOp.op \in DecodeOps /\ lastOp.result = "ok") =>
        LET fi == dec.frameInfo
            size == calculateSizeAtDecompositionLevel(fi, lastOp.arg)
        IN  Len(dec.decoded) =
                size.width * size.height * fi.componentCount * CeilBytes(fi.bitsPerSample)

C4_Witness ==
    /\ lastOp.op = "decodeSubResolution"
    /\ lastOp.result = "ok"
    /\ lastOp.arg >= 1
    /\ dec.frameInfo.componentCount > 1
    /\ Len(dec.decoded) > 0
    /\ Len(dec.decoded) < PackedSize(dec.frameInfo)

\* the sample the decoded buffer holds at a byte offset
StoredAt(buf, fi, off) ==
    IF fi.bitsPerSample <= 8
    THEN buf[off + 1]
    ELSE IF fi.isSigned
         THEN LoadI16(buf[off + 1], buf[off + 2])
         ELSE LoadU16(buf[off + 1], buf[off + 2])

\* the clamp the specification asks for
NominalClamp(fi, v) ==
    IF fi.bitsPerSample <= 8
    THEN ClampTo(v, 0, 255)
    ELSE IF fi.isSigned THEN ClampTo(v, -32768, 32767) ELSE ClampTo(v, 0, 65535)

\* the lines the last decode pulled without the engine failing
PullsServed ==
    Len(PassedTo(calls, "pull")) - (IF lastOp.result = "ok" THEN 0 ELSE 1)

\* the level size and layout of the last decode
LastLevelSize == calculateSizeAtDecompositionLevel(dec.frameInfo, lastOp.arg)
LastPlanar == decode_planar(dec.frameInfo.componentCount, dec.isUsingColorTransform)

\* the engine's sample x of the k-th pull of the last decode
Delivered(k, x) == EnginePull(dec.encoded, LastPlanar, lastOp.arg, k).i32[x + 1]

\* C5: every sample the engine delivered in a pulled line is stored as
\* clamp(v, 0, 255) for up to 8 bits, clamp(v, -32768, 32767) for signed and
\* clamp(v, 0, 65535) for unsigned deeper samples, never wrapped, for one
\* component and for several.
C5_Clamped ==
    (lastOp.op \in DecodeOps /\ Len(PassedTo(calls, "pull")) > 0) =>
        LET fi == dec.frameInfo
            cc == fi.componentCount
            bpp == CeilBytes(fi.bitsPerSample)
        IN  \A k \in 0..(PullsServed - 1), x \in 0..(LastLevelSize.width - 1) :
                StoredAt(dec.decoded, fi,
                         ((k \div cc) * LastLevelSize.width * cc + x * cc + (k % cc)) * bpp)
                    = NominalClamp(fi, Delivered(k, x))

C5_Witness ==
    /\ lastOp.op \in DecodeOps
    /\ lastOp.result = "ok"
    /\ dec.frameInfo.componentCount > 1
    /\ dec.frameInfo.bitsPerSample > 8
    /\ dec.frameInfo.isSigned
    /\ \E k \in 0..(PullsServed - 1), x \in 0..(LastLevelSize.width - 1) :
          /\ Delivered(k, x) < -32768
          /\ StoredAt(dec.decoded, dec.frameInfo,
                      ((k \div dec.frameInfo.componentCount) * LastLevelSize.width
                          * dec.frameInfo.componentCount
                       + x * dec.frameInfo.componentCount
                       + (k % dec.frameInfo.componentCount)) * 2) = -32768

\* C6: encode fails with BufferSizeMismatch, reading no byte outside the
\* source buffer, whenever the source buffer's length differs from
\* width * height * componentCount * bytesPerPixel of the frame given.
C6_SourceSizeChecked ==
    (/\ lastOp.op = "encode"
     /\ enc.frameInfo = inFrame
     /\ Len(enc.decoded) # PackedSize(enc.frameInfo))
    => /\ lastOp.result = "BufferSizeMismatch"
       /\ "oob_read" \notin ub

\* C7: a precinct list whose length is neither 0 nor the decompositions
\* value is reported as InvalidPrecinctConfiguration, by the call that set
\* it or by the following encode, and is not passed to the engine.
C7_PrecinctsChecked ==
    (/\ lastOp.op = "encode"
     /\ enc.frameInfo = inFrame
     /\ Len(enc.precincts) \notin {0, enc.decompositions})
    => /\ lastOp.result = "InvalidPrecinctConfiguration"
       /\ Len(PassedTo(calls, "set_precinct_size")) = 0

\* C8: after setDecompositions(n) the precinct list is empty and the
\* decompositions value is n, whatever was set before, and an encode that
\* follows passes n decompositions and no precinct size to the engine.
C8_DecompositionsClearPrecincts ==
    [][/\ (lastOp'.op = "setDecompositions"
             => /\ enc'.precincts = << >>
                /\ enc'.decompositions = lastOp'.arg)
       /\ (lastOp.op = "setDecompositions" /\ lastOp'.op = "encode"
             => /\ Len(PassedTo(calls', "set_precinct_size")) = 1
                /\ PassedTo(calls', "set_precinct_size")[1].a = << >>
                /\ PassedTo(calls', "set_num_decomposition")[1].a = lastOp.arg)]_vars

\* setDecompositions ran on an encoder whose earlier encode had passed
\* precinct sizes to the engine
C8_Witness ==
    /\ lastOp.op = "setDecompositions"
    /\ enc.precincts = << >>
    /\ Len(enc.encoded) >= 1
    /\ Len(enc.encoded[1].cod.precincts) > 0
    /\ enc.encoded[1].cod.num_decompositions # enc.decompositions

\* C9: a decode that fails leaves no partly written decoded buffer to be
\* seen: the buffer is as it was before the failed call.
C9_NoPartialResult ==
    [][(lastOp'.op \in DecodeOps \cup {"readHeader"} /\ lastOp'.result # "ok")
          => dec'.decoded = dec.decoded]_vars

\* C10: a one-component 8-bit unsigned image of any width and height,
\* encoded lossless with decompositions = 0 and decoded at level 0, comes
\* back as width*height bytes equal to the source bytes.
C10_Gray8RoundTrip ==
    (/\ RoundTripDone
     /\ enc.frameInfo.componentCount = 1
     /\ enc.frameInfo.bitsPerSample = 8
     /\ ~enc.frameInfo.isSigned
     /\ enc.decompositions = 0)
    => /\ Len(dec.decoded) = enc.frameInfo.width * enc.frameInfo.height
       /\ dec.decoded = enc.decoded

\* the 4x4 image of all 128
C10_Witness ==
    /\ RoundTripDone
    /\ enc.frameInfo = ScenarioFrame
    /\ enc.decompositions = 0
    /\ dec.numDecompositions = 0
    /\ enc.decoded = [i \in 1..16 |-> 128]
    /\ dec.decoded = [i \in 1..16 |-> 128]

\* the one argument the last call passed to the engine call named f
OnlyArg(f) == IF Len(PassedTo(calls, f)) = 1 THEN PassedTo(calls, f)[1].a ELSE "none"

\* C11: an encoder on which no setter was called passes to the engine, in
\* encode, 5 decompositions, reversible = true and no quantization step,
\* the progression order "RPCL", 64x64 blocks, no precinct size, image
\* offset (0,0), tile size (0,0), tile offset (0,0) and both tile-part
\* division flags false.
C11_DefaultsPassed ==
    lastOp.op = "encode" =>
        /\ OnlyArg("set_num_decomposition") = 5
        /\ OnlyArg("set_reversible") = TRUE
        /\ Len(PassedTo(calls, "set_irrev_quant")) = 0
        /\ OnlyArg("set_progression_order") = "RPCL"
        /\ OnlyArg("set_block_dims") = [width |-> 64, height |-> 64]
        /\ OnlyArg("set_precinct_size") = << >>
        /\ OnlyArg("set_image_offset") = [x |-> 0, y |-> 0]
        /\ OnlyArg("set_tile_size") = [width |-> 0, height |-> 0]
        /\ OnlyArg("set_tile_offset") = [x |-> 0, y |-> 0]
        /\ OnlyArg("set_tilepart_divisions") = << FALSE, FALSE >>

C11_Witness ==
    /\ lastOp.op = "encode"
    /\ lastOp.result = "ok"
    /\ enc.frameInfo = inFrame
    /\ OnlyArg("set_progression_order") = "RPCL"
    /\ OnlyArg("set_num_decomposition") = 5

\* the engine calls that belong to pixel decoding
PixelCalls == {"restrict_input_resolution", "set_planar", "create", "pull"}

\* C12: readHeader fills FrameInfo and the geometry fields from the header
\* and is separate from pixel decoding: it makes no restrict, set_planar,
\* create or pull call and leaves the decoded buffer, content and length,
\* as it was.
C12_ReadHeaderSeparable ==
    [][lastOp'.op = "readHeader" =>
          /\ dec'.decoded = dec.decoded
          /\ \A i \in DOMAIN calls' : calls'[i].f \notin PixelCalls
          /\ lastOp'.result = "ok" =>
                LET siz == dec'.encoded[1].siz
                    cod == dec'.encoded[1].cod
                IN  /\ dec'.frameInfo.width = siz.extent.x - siz.image_offset.x
                    /\ dec'.frameInfo.height = siz.extent.y - siz.image_offset.y
                    /\ dec'.frameInfo.componentCount = siz.num_components
                    /\ dec'.frameInfo.bitsPerSample = siz.components[1].bit_depth
                    /\ dec'.frameInfo.isSigned = siz.components[1].is_signed
                    /\ dec'.imageOffset = siz.image_offset
                    /\ dec'.tileSize = siz.tile_size
                    /\ dec'.tileOffset = siz.tile_offset
                    /\ dec'.numDecompositions = cod.num_decompositions
                    /\ dec'.blockDimensions = cod.block_dims
                    /\ dec'.isUsingColorTransform = cod.color_transform]_vars

\* readHeader ran on a decoder that already held decoded pixels
C12_Witness ==
    /\ lastOp.op = "readHeader"
    /\ lastOp.result = "ok"
    /\ Len(dec.decoded) > 0
    /\ dec.frameInfo.width > 0
    /\ dec.frameInfo.componentCount > 1

\* the frame descriptor and the geometry fields of a decoder
Descriptor(d) ==
    [frameInfo |-> d.frameInfo,
     downSamples |-> d.downSamples,
     numDecompositions |-> d.numDecompositions,
     isReversible |-> d.isReversible,
     progressionOrder |-> d.progressionOrder,
     imageOffset |-> d.imageOffset,
     tileSize |-> d.tileSize,
     tileOffset |-> d.tileOffset,
     blockDimensions |-> d.blockDimensions,
     precincts |-> d.precincts,
     numLayers |-> d.numLayers,
     isUsingColorTransform |-> d.isUsingColorTransform]

\* C13: once the header has been read, decode() and decodeSubResolution(L)
\* leave every FrameInfo and geometry field as it was, whatever the level
\* and however often they are called.
C13_DecodeKeepsDescriptor ==
    [][(lastOp'.op \in DecodeOps /\ dec.frameInfo # DefaultFrameInfo
           /\ dec'.encoded = dec.encoded)
          => Descriptor(dec') = Descriptor(dec)]_vars

\* a decode below full size has run and the descriptor still shows the
\* full size
C13_Witness ==
    /\ lastOp.op = "decodeSubResolution"
    /\ lastOp.result = "ok"
    /\ lastOp.arg >= 1
    /\ dec.frameInfo.width >= 2
    /\ dec.frameInfo.width = dec.encoded[1].siz.extent.x
    /\ Len(dec.decoded) < PackedSize(dec.frameInfo)

\* the x-th sample of the line the engine produced for component c at row
\* y in the last decode, wherever in the pull order that line came
ProducedFor(c, y, x) ==
    LET rows == LastLevelSize.height
        k == EngineIndex(LastPlanar, c, y, dec.frameInfo.componentCount, rows)
    IN  EnginePull(dec.encoded, LastPlanar, lastOp.arg, k).i32[x + 1]

\* C14: after a decode at level L the destination sample at sample index
\* y*levelWidth*componentCount + x*componentCount + c holds the clamped
\* x-th sample of the line the engine produced for component c at row y,
\* in both line layouts, also when a multi-component image is decoded
\* planar and the engine delivers its lines component by component.
C14_DecodedLayout ==
    (lastOp.op \in DecodeOps /\ lastOp.result = "ok") =>
        LET fi == dec.frameInfo
            cc == fi.componentCount
            bpp == CeilBytes(fi.bitsPerSample)
            lw == LastLevelSize.width
        IN  \A y \in 0..(LastLevelSize.height - 1), x \in 0..(lw - 1), c \in 0..(cc - 1) :
                StoredAt(dec.decoded, fi, (y * lw * cc + x * cc + c) * bpp)
                    = NominalClamp(fi, ProducedFor(c, y, x))

\* the source sample at a sample index, widened as the frame's type says
SourceSample(fi, buf, i) ==
    IF fi.bitsPerSample <= 8
    THEN buf[i + 1]
    ELSE IF fi.isSigned
         THEN LoadI16(buf[2 * i + 1], buf[2 * i + 2])
         ELSE LoadU16(buf[2 * i + 1], buf[2 * i + 2])

\* the lines the last encode handed over, in exchange order (the first
\* exchange hands over none)
HandedLines == Tail(PassedTo(calls, "exchange"))

\* C15: in encode the x-th value of the line handed to the engine for row
\* y and component c is the source sample at sample index
\* y*width*componentCount + x*componentCount + c, for 8-bit, signed 16-bit
\* and unsigned 16-bit sources and any componentCount, and the line is the
\* one of the component the engine asked for next, also when the engine
\* was set planar.
C15_EncodedLayout ==
    (/\ lastOp.op = "encode"
     /\ lastOp.result = "ok"
     /\ enc.frameInfo = inFrame
     /\ enc.frameInfo.bitsPerSample \in {8, 16}
     /\ Len(enc.decoded) = PackedSize(enc.frameInfo))
    => LET fi == enc.frameInfo
           cc == fi.componentCount
           planar == OnlyArg("set_planar")
       IN  \A k \in 0..(fi.height * cc - 1), x \in 0..(fi.width - 1) :
               HandedLines[k + 1].a[x + 1]
                   = SourceSample(fi, enc.decoded,
                        EngineRow(planar, k, cc, fi.height) * fi.width * cc
                        + x * cc + EngineComp(planar, k, cc, fi.height))

\* ceil(bits / 8) for 2..16 bits: the n in {1, 2} with 8(n-1) < bits <= 8n
BytesFor(bits) == CHOOSE n \in 1..2 : 8 * (n - 1) < bits /\ bits <= 8 * n

\* C16: bytesPerPixel is ceil(bitsPerSample / 8), 1 or 2, for every depth
\* from 2 to 16 bits, and the decoder's destination size and line offsets,
\* the encoder's source-buffer size and the encoder's line offsets in
\* encode all use that value.
C16_OneBytesPerPixel ==
    (lastOp.op = "encode" /\ enc.frameInfo = inFrame) =>
        LET fi == enc.frameInfo
            n == BytesFor(fi.bitsPerSample)
        IN  /\ fi.bitsPerSample \in 2..16
            /\ decode_bytesPerPixel(fi.bitsPerSample) = n
            /\ decode_destinationSize(Size(fi.width, fi.height), fi.componentCount,
                                      decode_bytesPerPixel(fi.bitsPerSample))
                  = fi.width * fi.height * fi.componentCount * n
            /\ getDecodedBuffer_decodedSize(fi) = fi.width * fi.height * fi.componentCount * n
            /\ encode_bytesPerPixel(fi.bitsPerSample) = n

\* where in the last call's engine calls the one call named f stands
CallAt(f) == CHOOSE i \in DOMAIN calls : calls[i].f = f

\* C17: a decode asks the engine for planar lines when componentCount is 1,
\* for interleaved lines when componentCount > 1 and the header's color
\* transform flag is set, and for planar lines when componentCount > 1 and
\* the flag is clear; it makes exactly one set_planar call, after
\* restrict_input_resolution(L, L) and before create.
C17_LineLayoutRequested ==
    (lastOp.op \in DecodeOps
        /\ (lastOp.result = "ok" \/ Len(PassedTo(calls, "create")) > 0)) =>
        LET cc == dec.frameInfo.componentCount
            ct == dec.encoded[1].cod.color_transform
        IN  /\ Len(PassedTo(calls, "set_planar")) = 1
            /\ Len(PassedTo(calls, "create")) = 1
            /\ Len(PassedTo(calls, "restrict_input_resolution")) = 1
            /\ OnlyArg("restrict_input_resolution") = << lastOp.arg, lastOp.arg >>
            /\ CallAt("restrict_input_resolution") < CallAt("set_planar")
            /\ CallAt("set_planar") < CallAt("create")
            /\ cc = 1 => OnlyArg("set_planar") = TRUE
            /\ (cc > 1 /\ ct) => OnlyArg("set_planar") = FALSE
            /\ (cc > 1 /\ ~ct) => OnlyArg("set_planar") = TRUE

\* a color-transformed image of several components was decoded interleaved
C17_Witness ==
    /\ lastOp.op \in DecodeOps
    /\ lastOp.result = "ok"
    /\ dec.frameInfo.componentCount > 1
    /\ dec.encoded[1].cod.color_transform
    /\ OnlyArg("set_planar") = FALSE
    /\ CallAt("set_planar") < CallAt("create")

\* the size and coding setters of the engine
SetterCalls ==
    {"set_image_extent", "set_num_components", "set_component", "set_image_offset",
     "set_tile_size", "set_tile_offset", "set_num_decomposition", "set_block_dims",
     "set_precinct_size", "set_progression_order", "set_color_transform",
     "set_reversible", "set_irrev_quant", "set_tilepart_divisions",
     "request_tlm_marker", "set_planar"}

\* C18: encode drives the engine in this order: every size and coding
\* setter, then write_headers, then one exchange that hands over no line,
\* then exactly height*componentCount exchanges that each hand over a
\* complete line, then flush, then close; no exchange comes before
\* write_headers or after flush.
C18_EncodeCallOrder ==
    lastOp.op = "encode" =>
        /\ \A i \in DOMAIN calls :
              calls[i].f = "exchange" =>
                  /\ \E j \in 1..(i - 1) : calls[j].f = "write_headers"
                  /\ \A j \in 1..(i - 1) : calls[j].f # "flush"
        /\ lastOp.result = "ok" =>
              LET wh == CallAt("write_headers")
                  lines == enc.frameInfo.height * enc.frameInfo.componentCount
              IN  /\ Len(PassedTo(calls, "write_headers")) = 1
                  /\ \A i \in DOMAIN calls : calls[i].f \in SetterCalls <=> i < wh
                  /\ calls[wh + 1] = Call("exchange", << >>)
                  /\ \A k \in 1..lines :
                        /\ calls[wh + 1 + k].f = "exchange"
                        /\ Len(calls[wh + 1 + k].a) = enc.frameInfo.width
                  /\ Len(calls) = wh + lines + 3
                  /\ calls[wh + lines + 2].f = "flush"
                  /\ calls[wh + lines + 3].f = "close"

\* an encode of several rows and components ran to its end
C18_Witness ==
    /\ lastOp.op = "encode"
    /\ lastOp.result = "ok"
    /\ enc.frameInfo.height > 1
    /\ enc.frameInfo.componentCount > 1
    /\ Len(PassedTo(calls, "exchange")) = enc.frameInfo.height * enc.frameInfo.componentCount + 1
    /\ calls[Len(calls)].f = "close"

\* C19: in every decode or encode each buffer has its final computed size
\* before the first byte is transferred and is not resized again: the
\* decoder's destination buffer before the first pull, the encoder's
\* source buffer before the first exchange, and the encoder's output
\* buffer before the engine's first write.
C19_BuffersSizedOnce ==
    [][/\ (lastOp'.op \in DecodeOps /\ Len(PassedTo(calls', "pull")) > 0)
          => Len(dec'.decoded)
                = LET size == calculateSizeAtDecompositionLevel(dec'.frameInfo, lastOp'.arg)
                  IN  size.width * size.height * dec'.frameInfo.componentCount
                         * CeilBytes(dec'.frameInfo.bitsPerSample)
       /\ (lastOp'.op = "encode" /\ Len(PassedTo(calls', "exchange")) > 0)
          => /\ Len(enc.decoded) = PackedSize(enc.frameInfo)
             /\ enc'.decoded = enc.decoded
             /\ EncodedBuffer_tell(EncodedBuffer_open(enc.encoded))
                   = EncodedBuffer_tell(enc'.encoded)]_vars

\* C20: after any sequence of encoder calls ending in encode, the
\* down-sampling passed to the engine for each component of the frame is
\* the last value given to setDownSample for it, or (1,1) when none was
\* given, whatever the order of setDownSample and the source-buffer accessor
C20_DownSamplePassed ==
    lastOp.op = "encode" =>
        LET passed == PassedTo(calls, "set_component")
        IN  /\ Len(passed) = enc.frameInfo.componentCount
            /\ \A c \in 0..(enc.frameInfo.componentCount - 1) :
                  passed[c + 1].a.downsampling
                     = IF c \in DOMAIN given THEN given[c] ELSE Point(1, 1)

\* what decode() leaves in a decoder that has done nothing but take the
\* encoded bytes
FreshDecode(bytes) == decodeAt([NewDecoder EXCEPT !.encoded = bytes], 0).dec.decoded

\* C21: decoding is repeatable: every decode() that returns leaves the
\* decoded buffer (length and every byte) the first decode() left, also
\* after decodeSubResolution calls at other levels, and the buffer a decoder
\* without any earlier call would have produced from the same encoded bytes
C21_DecodeRepeatable ==
    (lastOp.op = "decode" /\ lastOp.result = "ok")
        => /\ earlier.decoded
           /\ dec.decoded = earlier.first
           /\ dec.decoded = FreshDecode(dec.encoded)

\* a decode() has returned a non-empty image after the first one and after
\* a decodeSubResolution at another level
C21_Witness ==
    /\ lastOp.op = "decode"
    /\ lastOp.result = "ok"
    /\ earlier.between
    /\ Len(dec.decoded) > 1
    /\ \E i \in DOMAIN dec.decoded : dec.decoded[i] # 0

\* C22: image geometry survives the encode/header round trip for any image
\* offset: an encode of the caller's frame hands the engine height lines of
\* width samples per component (the image the engine was told of, extent
\* minus offset, is width by height), and readHeader on the written file
\* reports the width and height the encoder was given
C22_GeometrySurvives ==
    /\ (lastOp.op = "encode" /\ stage = "encodeFile" /\ enc.frameInfo = inFrame)
          => LET extent == OnlyArg("set_image_extent")
                 offset == OnlyArg("set_image_offset")
             IN  /\ extent.x - offset.x = inFrame.width
                 /\ extent.y - offset.y = inFrame.height
                 /\ Len(PassedTo(calls, "exchange"))
                       = 1 + inFrame.height * inFrame.componentCount
    /\ (lastOp.op = "readHeader" /\ lastOp.result = "ok" /\ stage = "decodeFile")
          => /\ dec.frameInfo.width = inFrame.width
             /\ dec.frameInfo.height = inFrame.height

\* C23: an encoder can be reused: after each encode the encoded buffer
\* holds exactly what the engine wrote during that encode, in write order
\* (the header block of write_headers, then the data block of flush;
\* nothing when the engine refused the headers), it is what an encode
\* starting from an empty buffer leaves, and getEncodedBytes returns it whole
C23_EncoderReusable ==
    [][/\ lastOp'.op = "encode"
          => /\ \E junk \in OOBBytes :
                   enc'.encoded = encode([enc EXCEPT !.encoded = << >>], junk).enc.encoded
             /\ lastOp'.result = "ok"
                   => /\ EncodedBuffer_tell(enc'.encoded) = 2
                      /\ enc'.encoded[1] = HeaderBlock(encode_siz(enc'), encode_cod(enc'))
                      /\ enc'.encoded[2].kind = "data"
             /\ lastOp'.result # "ok" => EncodedBuffer_tell(enc'.encoded) = 0
       /\ lastOp'.op = "getEncodedBytes"
          => /\ ret' = enc.encoded
             /\ Len(ret') = EncodedBuffer_tell(enc.encoded)]_vars

\* an encode has returned on an encoder whose earlier encode wrote other
\* bytes, which the caller took
C23_Witness ==
    /\ lastOp.op = "encode"
    /\ lastOp.result = "ok"
    /\ Len(file) = 2
    /\ file # enc.encoded

====
